---- MODULE Spec2Model ----
(***************************************************************************)
(* scripts/generate_secret.py: a one-shot script that draws a version-4    *)
(* UUID, makes sure the parent directory of "secret.toml" exists and       *)
(* prints two lines.  Text is modelled as a sequence of one-character      *)
(* strings, a path as the sequence of its components ("." is <<>>), the    *)
(* file system as the set of directories and the set of files below the    *)
(* working directory.                                                      *)
(***************************************************************************)
EXTENDS Integers, Sequences, FiniteSets

VARIABLES
    argv,         \* command-line arguments of the process (never read)
    environ,      \* environment of the process (never read)
    stdin,        \* standard input of the process (never read)
    dirs,         \* directories below the working directory; <<>> is "."
                  \* itself, present while "." resolves to a directory
    files,        \* files below the working directory, as <<name, content>>
    writable,     \* whether entries may be created in the file system
    fs0,          \* the file system as the running process found it
    pc,           \* line of main() about to run, or "exited"
    secret,       \* local variable secret
    output_file,  \* local variable output_file
    stdout,       \* characters written to standard output by this process
    exc,          \* "none", or the exception that propagated out of main()
    status,       \* exit status of the process (meaningful once pc = "exited")
    calls,        \* library calls main() has made so far, in order
    prev          \* what the previous invocation was given and what it did

vars == <<argv, environ, stdin, dirs, files, writable, fs0, pc, secret,
          output_file, stdout, exc, status, calls, prev>>

-----------------------------------------------------------------------------
(* Bounds *)

\* number of distinct sample bytes (beyond 0) the random source can deliver
MaxByteSample == 2

-----------------------------------------------------------------------------
(* Text *)

NL == "\n"

HexDigits == <<"0", "1", "2", "3", "4", "5", "6", "7",
               "8", "9", "a", "b", "c", "d", "e", "f">>

LitSecretGenerated ==
    <<"S", "e", "c", "r", "e", "t", " ", "G", "e", "n", "e", "r", "a", "t",
      "e", "d", " ", "-", ">", " ">>

LitWrittenTo ==
    <<"S", "e", "c", "r", "e", "t", " ", "U", "U", "I", "D", "4", " ", "g",
      "e", "n", "e", "r", "a", "t", "e", "d", " ", "a", "n", "d", " ", "w",
      "r", "i", "t", "t", "e", "n", " ", "t", "o", " ">>

\* as LitOutputFile, but below a directory
LitOutputFileInDir ==
    <<"c", "o", "n", "f", "i", "g", "/", "s", "e", "c", "r", "e", "t", ".",
      "t", "o", "m", "l">>

LitOutputFile == <<"s", "e", "c", "r", "e", "t", ".", "t", "o", "m", "l">>

-----------------------------------------------------------------------------
(* uuid.uuid4() and str() of the result *)

\* the 16-byte strings os.urandom(16) is sampled from: bytes 7 and 9 (the
\* ones that carry the version and the variant bits) get one sample, the
\* other fourteen another
ByteSamples == { (i * 85) % 256 : i \in 0..MaxByteSample }

RandomBytes ==
    { [k \in 1..16 |-> IF k \in {7, 9} THEN s ELSE f] :
          f \in ByteSamples, s \in ByteSamples }

\* UUID(bytes=b, version=4): the variant bits become 10, the version 0100
\* as SetVersion4, but the version bits are left as drawn
SetVariantOnly(b) == [b EXCEPT ![9] = (b[9] % 64) + 128]

SetVersion4(b) ==
    [b EXCEPT ![9] = (b[9] % 64) + 128, ![7] = (b[7] % 16) + 64]

\* '%032x' % int: two lowercase hexadecimal digits per byte
Hex32(b) ==
    [k \in 1..32 |->
        IF k % 2 = 1 THEN HexDigits[(b[(k + 1) \div 2] \div 16) + 1]
                     ELSE HexDigits[(b[k \div 2] % 16) + 1]]

\* UUID.__str__: hex[:8]-hex[8:12]-hex[12:16]-hex[16:20]-hex[20:]
UuidStr(b) ==
    LET hex == Hex32(b)
    IN  SubSeq(hex, 1, 8) \o <<"-">> \o SubSeq(hex, 9, 12) \o <<"-">> \o
        SubSeq(hex, 13, 16) \o <<"-">> \o SubSeq(hex, 17, 20) \o <<"-">> \o
        SubSeq(hex, 21, 32)

Uuid4Str(rnd) == UuidStr(SetVersion4(rnd))

-----------------------------------------------------------------------------
(* pathlib: Path(text), .parent, .mkdir(parents=True, exist_ok=True) *)

RECURSIVE SplitPath(_, _)
\* the components of a relative path; empty and "." components are dropped
SplitPath(text, cur) ==
    IF text = <<>>
    THEN IF cur = <<>> \/ cur = <<".">> THEN <<>> ELSE <<cur>>
    ELSE IF Head(text) = "/"
         THEN (IF cur = <<>> \/ cur = <<".">> THEN <<>> ELSE <<cur>>)
              \o SplitPath(Tail(text), <<>>)
         ELSE SplitPath(Tail(text), Append(cur, Head(text)))

PathOf(text) == SplitPath(text, <<>>)

\* Path.parent: the path without its last component; "." is its own parent
Parent(p) == IF p = <<>> THEN <<>> ELSE SubSeq(p, 1, Len(p) - 1)

\* os.mkdir(p): the error the operating system may answer with ("OK": none),
\* and the directories afterwards
OsMkdir(p, d, w) ==
    IF p = <<>> /\ p \notin d
    THEN { [err |-> e, dirs |-> d] : e \in {"EEXIST", "ENOENT"} }
    ELSE IF p \in d
    THEN { [err |-> e, dirs |-> d] :
             e \in {"EEXIST"} \cup (IF w THEN {} ELSE {"EACCES", "EROFS"}) }
    ELSE IF Parent(p) \notin d
    THEN { [err |-> "ENOENT", dirs |-> d] }
    ELSE IF ~w
    THEN { [err |-> e, dirs |-> d] : e \in {"EACCES", "EROFS"} }
    ELSE { [err |-> "OK", dirs |-> d \cup {p}] }

\* Path.is_dir()
IsDir(p, d) == p \in d

ExcOf(err) ==
    CASE err = "EEXIST" -> "FileExistsError"
      [] err = "ENOENT" -> "FileNotFoundError"
      [] err = "EACCES" -> "PermissionError"
      [] err = "EROFS"  -> "OSError"
      [] OTHER          -> "none"

RECURSIVE PathMkdir(_, _, _, _, _)
\* Path.mkdir: the possible outcomes, each the directories afterwards and the
\* exception raised ("none": returned)
PathMkdir(p, d, w, parents, exist_ok) ==
    UNION { IF r.err = "OK"
            THEN { [dirs |-> r.dirs, exc |-> "none"] }
            ELSE IF r.err = "ENOENT"
            THEN IF ~parents \/ Parent(p) = p
                 THEN { [dirs |-> d, exc |-> ExcOf(r.err)] }
                 ELSE UNION { IF q.exc # "none"
                              THEN {q}
                              ELSE PathMkdir(p, q.dirs, w, FALSE, exist_ok) :
                              q \in PathMkdir(Parent(p), d, w, TRUE, TRUE) }
            ELSE IF ~exist_ok \/ ~IsDir(p, d)
                 THEN { [dirs |-> d, exc |-> ExcOf(r.err)] }
                 ELSE { [dirs |-> d, exc |-> "none"] } :
            r \in OsMkdir(p, d, w) }

-----------------------------------------------------------------------------
(* print and the f-strings *)

\* as FmtSecretGenerated, but a plain string where the f-string was meant
FmtSecretGeneratedPlain(s) ==
    LitSecretGenerated \o <<"{", "s", "e", "c", "r", "e", "t", "}">>

FmtSecretGenerated(s) == LitSecretGenerated \o s

FmtWrittenTo(f) == LitWrittenTo \o f

\* as PrintLine, but with end=""
PrintNoNewline(out, line) == out \o line

PrintLine(out, line) == out \o line \o <<NL>>

Call(op, arg, ret) == [op |-> op, arg |-> arg, ret |-> ret]

-----------------------------------------------------------------------------
(* The process *)

Argvs == { <<>>, <<"--output", "other.toml">> }
Environs == { {}, {<<"SECRET_FILE", "other.toml">>} }
Stdins == { <<>>, <<"x", NL>> }

OldContent == <<"o", "l", "d">>

FileSystems ==
    { [dirs |-> {}, files |-> {}, writable |-> w] : w \in BOOLEAN }
    \cup
    { [dirs |-> {<<>>}, files |-> f, writable |-> w] :
          f \in { {}, {<<LitOutputFile, OldContent>>} }, w \in BOOLEAN }

NoRun == [ran |-> FALSE]

Init ==
    /\ argv \in Argvs
    /\ environ \in Environs
    /\ stdin \in Stdins
    /\ \E fs \in FileSystems :
          /\ dirs = fs.dirs
          /\ files = fs.files
          /\ writable = fs.writable
          /\ fs0 = fs
    /\ pc = "line8"
    /\ secret = <<>>
    /\ output_file = <<>>
    /\ stdout = <<>>
    /\ exc = "none"
    /\ status = 0
    /\ calls = <<>>
    /\ prev = NoRun

\* secret = str(uuid.uuid4())
GenerateSecret ==
    /\ pc = "line8"
    /\ \E rnd \in RandomBytes :
          /\ secret' = Uuid4Str(rnd)
          /\ calls' = Append(calls, Call("uuid4", <<>>, Uuid4Str(rnd)))
    /\ pc' = "line11"
    /\ UNCHANGED <<argv, environ, stdin, dirs, files, writable, fs0,
                   output_file, stdout, exc, status, prev>>

\* as DefineOutputFile, but taking the file name from the command line
DefineOutputFileFromArgv ==
    /\ pc = "line11"
    /\ output_file' = IF Len(argv) >= 2 THEN <<argv[2]>> ELSE LitOutputFile
    /\ pc' = "line14"
    /\ UNCHANGED <<argv, environ, stdin, dirs, files, writable, fs0, secret,
                   stdout, exc, status, calls, prev>>

\* output_file = "secret.toml"
DefineOutputFile ==
    /\ pc = "line11"
    /\ output_file' = LitOutputFile
    /\ pc' = "line14"
    /\ UNCHANGED <<argv, environ, stdin, dirs, files, writable, fs0, secret,
                   stdout, exc, status, calls, prev>>

\* as MkdirOutcomes, but without exist_ok=True
MkdirOutcomesNoExistOk ==
    PathMkdir(Parent(PathOf(output_file)), dirs, writable, TRUE, FALSE)

\* Path(output_file).parent.mkdir(parents=True, exist_ok=True)
MkdirOutcomes ==
    PathMkdir(Parent(PathOf(output_file)), dirs, writable, TRUE, TRUE)

\* as CreateDirectory, but inside try: ... except OSError: pass
CreateDirectoryCaught ==
    /\ pc = "line14"
    /\ \E r \in MkdirOutcomes :
          /\ dirs' = r.dirs
          /\ calls' = Append(calls, Call("mkdir", Parent(PathOf(output_file)),
                                         <<r.exc>>))
    /\ pc' = "line19"
    /\ UNCHANGED <<argv, environ, stdin, files, writable, fs0, secret,
                   output_file, stdout, exc, status, prev>>

\* the mkdir statement; an exception is caught nowhere and ends the process
\* with status 1
CreateDirectory ==
    /\ pc = "line14"
    /\ \E r \in MkdirOutcomes :
          /\ dirs' = r.dirs
          /\ calls' = Append(calls, Call("mkdir", Parent(PathOf(output_file)),
                                         <<r.exc>>))
          /\ IF r.exc = "none"
             THEN /\ pc' = "line19"
                  /\ UNCHANGED <<exc, status>>
             ELSE /\ pc' = "exited"
                  /\ exc' = r.exc
                  /\ status' = 1
    /\ UNCHANGED <<argv, environ, stdin, files, writable, fs0, secret,
                   output_file, stdout, prev>>

\* as WriteSecretFile, but with the statement in force: the file holds
\* secret_salt = "<secret>"
WriteSecretFileInForce(f, name, s) ==
    { e \in f : e[1] # name }
    \cup { <<name, <<"s", "e", "c", "r", "e", "t", "_", "s", "a", "l", "t",
                     " ", "=", " ", "\"">> \o s \o <<"\"", NL>> >> }

\* "# with open(output_file, "wb") as f: tomli_w.dump(...)": the statement
\* is a comment, the files afterwards are the files before
WriteSecretFile(f, name, s) == f

\* as PrintSecret, but printing str(uuid.uuid4()) where secret was meant
PrintFreshSecret ==
    /\ pc = "line19"
    /\ files' = WriteSecretFile(files, output_file, secret)
    /\ \E rnd \in RandomBytes :
          /\ stdout' = PrintLine(stdout, FmtSecretGenerated(Uuid4Str(rnd)))
          /\ calls' = calls \o
                <<Call("uuid4", <<>>, Uuid4Str(rnd)),
                  Call("print", FmtSecretGenerated(Uuid4Str(rnd)), <<>>)>>
    /\ pc' = "line20"
    /\ UNCHANGED <<argv, environ, stdin, dirs, writable, fs0, secret,
                   output_file, exc, status, prev>>

\* the commented-out write, then print(f"Secret Generated -> {secret}")
PrintSecret ==
    /\ pc = "line19"
    /\ files' = WriteSecretFile(files, output_file, secret)
    /\ stdout' = PrintLine(stdout, FmtSecretGenerated(secret))
    /\ calls' = Append(calls, Call("print", FmtSecretGenerated(secret), <<>>))
    /\ pc' = "line20"
    /\ UNCHANGED <<argv, environ, stdin, dirs, writable, fs0, secret,
                   output_file, exc, status, prev>>

\* print(f"Secret UUID4 generated and written to {output_file}"), after which
\* main() returns and the interpreter exits with status 0
PrintWritten ==
    /\ pc = "line20"
    /\ stdout' = PrintLine(stdout, FmtWrittenTo(output_file))
    /\ calls' = Append(calls, Call("print", FmtWrittenTo(output_file), <<>>))
    /\ pc' = "exited"
    /\ status' = 0
    /\ UNCHANGED <<argv, environ, stdin, dirs, files, writable, fs0, secret,
                   output_file, exc, prev>>

\* what an observer of a finished process has seen
Observed ==
    [ran |-> TRUE, argv |-> argv, environ |-> environ, stdin |-> stdin,
     before |-> fs0, stdout |-> stdout, status |-> status, exc |-> exc,
     uuid |-> IF calls = <<>> THEN <<>> ELSE calls[1].ret,
     after |-> [dirs |-> dirs, files |-> files, writable |-> writable]]

\* if __name__ == "__main__": main() -- the script is run once more, in the
\* same working directory; nothing of the finished process survives
Invoke ==
    /\ pc = "exited"
    /\ prev' = Observed
    /\ argv' \in Argvs
    /\ environ' \in Environs
    /\ stdin' \in Stdins
    /\ fs0' = [dirs |-> dirs, files |-> files, writable |-> writable]
    /\ pc' = "line8"
    /\ secret' = <<>>
    /\ output_file' = <<>>
    /\ stdout' = <<>>
    /\ exc' = "none"
    /\ status' = 0
    /\ calls' = <<>>
    /\ UNCHANGED <<dirs, files, writable>>

Next ==
    \/ GenerateSecret
    \/ DefineOutputFile
    \/ CreateDirectory
    \/ PrintSecret
    \/ PrintWritten
    \/ Invoke

Spec == Init /\ [][Next]_vars

-----------------------------------------------------------------------------
(* Reading the observations *)

\* where the lines of a text end: at each newline, and after the last
\* character when that is not a newline
LineEnds(out) ==
    { i \in 1..Len(out) : out[i] = NL }
    \cup (IF out # <<>> /\ out[Len(out)] # NL THEN {Len(out) + 1} ELSE {})

\* the lines of a text, without their newlines
Lines(out) ==
    LET ends == LineEnds(out)
        End(k) == CHOOSE e \in ends : Cardinality({x \in ends : x <= e}) = k
        Start(k) == IF k = 1 THEN 1 ELSE End(k - 1) + 1
    IN  [k \in 1..Cardinality(ends) |-> SubSeq(out, Start(k), End(k) - 1)]

EndsWithNewline(out) == out # <<>> /\ out[Len(out)] = NL

Ops(log) == [i \in 1..Len(log) |-> log[i].op]

IsPrefix(a, b) == Len(a) <= Len(b) /\ a = SubSeq(b, 1, Len(a))

HexChars == { HexDigits[i] : i \in 1..16 }

CwdExists == <<>> \in fs0.dirs

NowFs == [dirs |-> dirs, files |-> files, writable |-> writable]

Exited == pc = "exited"

MkdirCalled == Len(calls) >= 2 /\ calls[2].op = "mkdir"

MkdirRaised == MkdirCalled /\ calls[2].ret # <<"none">>

MkdirReturned == MkdirCalled /\ calls[2].ret = <<"none">>

ProgramStep ==
    GenerateSecret \/ DefineOutputFile \/ CreateDirectory \/ PrintSecret
    \/ PrintWritten

ExpectedLine1Prefix ==
    <<"S", "e", "c", "r", "e", "t", " ", "G", "e", "n", "e", "r", "a", "t",
      "e", "d", " ", "-", ">", " ">>

ExpectedLine2 ==
    <<"S", "e", "c", "r", "e", "t", " ", "U", "U", "I", "D", "4", " ", "g",
      "e", "n", "e", "r", "a", "t", "e", "d", " ", "a", "n", "d", " ", "w",
      "r", "i", "t", "t", "e", "n", " ", "t", "o", " ",
      "s", "e", "c", "r", "e", "t", ".", "t", "o", "m", "l">>

-----------------------------------------------------------------------------
(* Claims *)

\* C1: a process started in an existing, writable working directory never
\* has more than two lines on standard output, can always take its next step
\* until it has exited, and has exited with status 0, no exception and
\* exactly two newline-terminated lines on standard output.
C1_TwoLinesExitZero ==
    (CwdExists /\ fs0.writable) =>
        /\ Len(Lines(stdout)) <= 2
        /\ ~Exited => ENABLED ProgramStep
        /\ Exited => /\ status = 0
                     /\ exc = "none"
                     /\ Len(Lines(stdout)) = 2
                     /\ EndsWithNewline(stdout)

C1_Witness == Exited /\ CwdExists /\ fs0.writable /\ Len(Lines(stdout)) = 2

\* C2: once the mkdir call has raised, the process has exited with a
\* non-zero status because of that exception, and standard output is empty.
C2_MkdirFailureIsFatal ==
    MkdirRaised =>
        /\ Exited
        /\ status # 0
        /\ <<exc>> = calls[2].ret
        /\ Len(calls) = 2
        /\ stdout = <<>>

C2_Witness == MkdirRaised /\ Exited /\ status = 1

\* C3: the secret on the first output line has 36 characters, hyphens at
\* positions 9, 14, 19 and 24, lowercase hexadecimal digits everywhere else,
\* and "4" as the first digit of the third group.
C3_CanonicalUuid4 ==
    stdout # <<>> =>
        LET line == Lines(stdout)[1]
            s == SubSeq(line, Len(ExpectedLine1Prefix) + 1, Len(line))
        IN  /\ Len(s) = 36
            /\ \A i \in 1..Len(s) :
                  IF i \in {9, 14, 19, 24} THEN s[i] = "-"
                                           ELSE s[i] \in HexChars
            /\ s[15] = "4"

C3_Witness ==
    /\ Len(Lines(stdout)) >= 1
    /\ Len(Lines(stdout)[1]) = Len(ExpectedLine1Prefix) + 36
    /\ Lines(stdout)[1][Len(ExpectedLine1Prefix) + 1] = "a"

\* C4: at every point of a run the files are the files the process found:
\* secret.toml is not created when absent and keeps its content when
\* present, also after the line that says "written to" has been printed.
C4_NoFileWritten == files = fs0.files

C4_Witness ==
    /\ Exited
    /\ status = 0
    /\ Len(Lines(stdout)) = 2
    /\ fs0.files = {}
    /\ files = {}

\* C5: a process that exited with status 0 has written exactly the line
\* "Secret Generated -> " followed by the generated secret and then the line
\* "Secret UUID4 generated and written to secret.toml".
C5_OutputText ==
    (Exited /\ status = 0) =>
        /\ EndsWithNewline(stdout)
        /\ Lines(stdout) = <<ExpectedLine1Prefix \o calls[1].ret,
                             ExpectedLine2>>

C5_Witness ==
    /\ Exited
    /\ status = 0
    /\ prev.ran
    /\ prev.status = 0
    /\ prev.stdout # stdout

\* C6: the mkdir call is made on the parent of the output path; when it
\* returns, that directory exists; when the directory existed before, the
\* call returns without an exception and the directories are unchanged.
C6_MkdirIdempotent ==
    MkdirCalled =>
        /\ calls[2].arg = Parent(PathOf(output_file))
        /\ MkdirReturned => IsDir(calls[2].arg, dirs)
        /\ IsDir(calls[2].arg, fs0.dirs) => (MkdirReturned /\ dirs = fs0.dirs)

C6_Witness ==
    /\ MkdirReturned
    /\ IsDir(calls[2].arg, fs0.dirs)
    /\ prev.ran
    /\ prev.status = 0

\* C8: two consecutive runs that found the same file system and drew the
\* same UUID have the same standard output, the same exit status and leave
\* the same file system, whatever their arguments, environment and input.
C8_InputsIgnored ==
    (/\ Exited
     /\ prev.ran
     /\ prev.before = fs0
     /\ prev.uuid = calls[1].ret) =>
        /\ prev.stdout = stdout
        /\ prev.status = status
        /\ prev.after = NowFs

C8_Witness ==
    /\ Exited
    /\ prev.ran
    /\ prev.before = fs0
    /\ prev.uuid = calls[1].ret
    /\ prev.argv # argv
    /\ prev.environ # environ
    /\ prev.stdin # stdin
    /\ status = 0

\* C9: the calls of a run are a prefix of uuid4, mkdir, print, print, all
\* four once the process has exited with status 0; standard output is empty
\* until the mkdir call has returned; the first line shows the value the one
\* uuid4 call returned.
C9_FixedOrder ==
    /\ IsPrefix(Ops(calls), <<"uuid4", "mkdir", "print", "print">>)
    /\ (Exited /\ status = 0) => Len(calls) = 4
    /\ stdout # <<>> => MkdirReturned
    /\ stdout # <<>> =>
          Lines(stdout)[1] = ExpectedLine1Prefix \o calls[1].ret

C9_Witness ==
    /\ Exited
    /\ Ops(calls) = <<"uuid4", "mkdir", "print", "print">>
    /\ Len(Lines(stdout)) = 2

\* C10: the mkdir call is made on the working directory itself; when the
\* working directory exists the call creates nothing and raises nothing,
\* and the process exits with status 0 and two lines, writable or not.
C10_ParentIsCwd ==
    /\ MkdirCalled => calls[2].arg = <<>>
    /\ CwdExists =>
          /\ dirs = fs0.dirs
          /\ exc = "none"
          /\ MkdirCalled => MkdirReturned
          /\ Exited => (status = 0 /\ Len(Lines(stdout)) = 2)

C10_Witness ==
    /\ Exited
    /\ CwdExists
    /\ ~fs0.writable
    /\ status = 0
    /\ Len(Lines(stdout)) = 2
    /\ dirs = fs0.dirs

====
